---- MODULE Spec2Model ----
(***************************************************************************)
(* Time spent in statuses (src/statuses.py).                               *)
(*                                                                         *)
(* get_status_metrics is modelled as a state machine: one step per         *)
(* iteration of its event loop (lines 74-98) and one step per iteration    *)
(* of its finalization loop (lines 100-115).  The list returned by         *)
(* get_status_events is its input: each loop iteration draws the next      *)
(* event of the list from a bounded set.  get_stats_time_in_statuses is    *)
(* one step per issue of its collecting loop (lines 125-135) and one step  *)
(* for the statistics (lines 137-162).  Times are whole seconds.           *)
(* Optional values (None) are sequences of length 0 or 1.                  *)
(*                                                                         *)
(* Spec runs get_status_metrics on issues as the tracker reports them      *)
(* (closed_at set exactly while closed); SpecAny on any issue object.      *)
(***************************************************************************)
EXTENDS Integers, Sequences, FiniteSets

\* ---- bounds of the model
MaxTime == 2
MaxEvents == 3
MaxTicks == 1
MaxIssues == 3
MaxSeconds == 3
SampleUnit == 10
MaxNodes == 2

\* ---- program constants
\* timedelta(minutes=5), in seconds
GraceSeconds == 300

\* the configured list of statuses (the parameter `statuses`)
statuses == <<"A", "B">>
StatusSet == {statuses[j] : j \in 1..Len(statuses)}

None == << >>
Some(v) == <<v>>
Val(o) == o[1]

VARIABLES
    issue,                   \* [created_at, closed_at, state]
    clock,                   \* the wall clock datetime.now() reads
    pc,                      \* position in get_status_metrics
    n_events,                \* events of status_events iterated so far
    status_metrics,          \* dict status -> timedelta | None
    statused,                \* dict used as a set: statuses with a processed "statused" event
    unstatused,              \* dict used as a set: statuses with a processed "unstatused" event
    status_last_event_type,  \* dict status -> kind of the last processed event
    k,                       \* index of the finalization loop over statuses
    n_skipped,               \* history: iterations that took the `continue` of line 79
    intervals,               \* history: explicit ENTERED/LEFT pairing of the processed events
    in_range,                \* history: statuses all of whose events lie in [created_at, closed_at]
    loop_metrics,            \* history: status_metrics when the event loop ended
    now_read,                \* history: the instant each status's finalization read
    filtered,                \* history: the same loop run on the list without the late events
    ascending,               \* history: per status, the time of its last processed event
    solo,                    \* history: per status, the loop run on that status's events alone
    tally,                   \* history: per status, counts and time sums of its processed events
    n_issues,                \* get_stats_time_in_statuses: issues iterated so far
    time_in_statuses,        \* dict status -> list of total_seconds()
    stats,                   \* the returned {"avg", "med", "90p"}, None before the return
    sampled,                 \* history: statuses some issue held a non-None value for
    document,                \* get_status_events: what the fetched page holds
    status_events,           \* the list get_status_events builds
    edges,                   \* history: the timeline nodes iterated so far
    emitted                  \* history: the events each iteration appended

metricsVars == <<issue, clock, n_events, status_metrics, statused, unstatused,
                 status_last_event_type, k, n_skipped, intervals,
                 in_range, loop_metrics, now_read, filtered, ascending,
                 solo, tally>>
statsVars == <<n_issues, time_in_statuses, stats, sampled>>
eventsVars == <<document, status_events, edges, emitted>>
vars == <<pc, metricsVars, statsVars, eventsVars>>

\* ---- inputs
Issues ==
    {[created_at |-> c, closed_at |-> cl, state |-> st] :
        c \in 0..1,
        cl \in {None} \cup {Some(t) : t \in 0..MaxTime},
        st \in {"open", "closed"}}

\* closed_at is never before created_at
WellFormed(i) == i.closed_at # None => Val(i.closed_at) >= i.created_at

\* an issue as the tracker reports it: closed_at is set exactly while the
\* issue is closed (reopening an issue clears it)
Consistent(i) == (i.state = "closed") <=> (i.closed_at # None)

\* timestamps of events: the issue's lifetime, plus the last instant of the
\* grace window after closure and the first instant past it
EventTimes(i) ==
    (0..MaxTime) \cup
    (IF i.closed_at = None THEN {}
     ELSE {Val(i.closed_at) + GraceSeconds, Val(i.closed_at) + GraceSeconds + 1})

StatusEvents(i) ==
    {[createdAt |-> t, event |-> ev, statusName |-> s] :
        t \in EventTimes(i), ev \in {"statused", "unstatused"}, s \in StatusSet}

\* the instant of the first clock read: no event lies in the future
FirstNow == MaxTime + GraceSeconds + 2
Nows == FirstNow..(FirstNow + MaxTicks)

\* ---- get_status_metrics: the event loop

\* variant: the grace window compared with >= instead of >
SkipEvent_AtGrace(i, e) ==
    i.closed_at # None /\ e.createdAt >= Val(i.closed_at) + GraceSeconds

\* lines 76-78: the late-event test
SkipEvent(i, e) ==
    i.closed_at # None /\ e.createdAt > Val(i.closed_at) + GraceSeconds

\* lines 84-85 / 93-94: a None accumulator starts at timedelta(0)
OrZero(o) == IF o = None THEN 0 ELSE Val(o)

\* the loop's dictionaries, as one record
Acc(m, sd, ud, lt) ==
    [status_metrics |-> m, statused |-> sd, unstatused |-> ud,
     status_last_event_type |-> lt]

\* variant: accumulators initialised to timedelta(0) instead of None
EmptyAcc_Zero == Acc([s \in StatusSet |-> Some(0)], {}, {}, << >>)

\* lines 62-69: the dictionaries before the loop
EmptyAcc == Acc([s \in StatusSet |-> None], {}, {}, << >>)

\* variant: one shared last-event kind for all the keys
SetKey_All(d, key, v) == [x \in (DOMAIN d) \cup {key} |-> v]

SetKey(d, key, v) == [x \in (DOMAIN d) \cup {key} |-> IF x = key THEN v ELSE d[x]]

\* lines 81-98: the body of one iteration that was not skipped
ApplyEvent(a, e, i) ==
    LET s == e.statusName
        off == e.createdAt - i.created_at
    IN  IF e.event = "statused"
        THEN Acc(IF s \in StatusSet
                 THEN [a.status_metrics EXCEPT ![s] = Some(OrZero(@) - off)]
                 ELSE a.status_metrics,
                 a.statused \cup {s},
                 a.unstatused,
                 IF s \in StatusSet
                 THEN SetKey(a.status_last_event_type, s, "statused")
                 ELSE a.status_last_event_type)
        ELSE IF e.event = "unstatused"
        THEN Acc(IF s \in StatusSet
                 THEN [a.status_metrics EXCEPT ![s] = Some(OrZero(@) + off)]
                 ELSE a.status_metrics,
                 a.statused,
                 a.unstatused \cup {s},
                 IF s \in StatusSet
                 THEN SetKey(a.status_last_event_type, s, "unstatused")
                 ELSE a.status_last_event_type)
        ELSE a

\* lines 74-98: one iteration, the skip decided first
LoopBody(a, e, i) == IF SkipEvent(i, e) THEN a ELSE ApplyEvent(a, e, i)

\* ---- history: explicit interval pairing of one status's processed events
NoIntervals == [phase |-> "none", start |-> 0, matched |-> 0]
Broken == [phase |-> "broken", start |-> 0, matched |-> 0]

Pair(h, e) ==
    IF e.event = "statused"
    THEN IF h.phase \in {"none", "out"}
         THEN [phase |-> "in", start |-> e.createdAt, matched |-> h.matched]
         ELSE Broken
    ELSE IF h.phase = "in"
         THEN [phase |-> "out", start |-> 0,
               matched |-> h.matched + (e.createdAt - h.start)]
         ELSE Broken

\* the processed events of one status, in time order from created_at on: the
\* time of the last one, or Unordered once one came before its predecessor
Unordered == Some(-1)
Ascend(h, e, i) ==
    IF h = Unordered THEN Unordered
    ELSE IF e.createdAt < (IF h = None THEN i.created_at ELSE Val(h)) THEN Unordered
    ELSE Some(e.createdAt)

\* the processed events of one status as a multiset summary: how many of
\* each kind, and the sums of their timestamps
NoTally == [n_in |-> 0, n_out |-> 0, t_in |-> 0, t_out |-> 0]
Count(y, e) ==
    IF e.event = "statused"
    THEN [y EXCEPT !.n_in = @ + 1, !.t_in = @ + e.createdAt]
    ELSE [y EXCEPT !.n_out = @ + 1, !.t_out = @ + e.createdAt]

InLifetime(i, e) ==
    /\ i.created_at <= e.createdAt
    /\ i.closed_at # None
    /\ e.createdAt <= Val(i.closed_at)

\* ---- get_status_metrics: finalization

\* variant: the closed branch adds nothing
FinalizeStatus_NoClosure(m, s, i, lt, now) ==
    IF i.state = "closed"
    THEN m[s]
    ELSE IF lt[s] = "unstatused"
         THEN m[s]
         ELSE Some(Val(m[s]) + (now - i.created_at))

\* variant: the open branch adds now without subtracting created_at
FinalizeStatus_NowAbsolute(m, s, i, lt, now) ==
    IF i.state = "closed"
    THEN Some(Val(m[s]) + (Val(i.closed_at) - i.created_at))
    ELSE IF lt[s] = "unstatused"
         THEN m[s]
         ELSE Some(Val(m[s]) + now)

\* variant: the open branch without the test of the last event kind
FinalizeStatus_NoLeftCheck(m, s, i, lt, now) ==
    IF i.state = "closed"
    THEN Some(Val(m[s]) + (Val(i.closed_at) - i.created_at))
    ELSE Some(Val(m[s]) + (now - i.created_at))

\* variant: the open branch subtracts the elapsed time
FinalizeStatus_Subtract(m, s, i, lt, now) ==
    IF i.state = "closed"
    THEN Some(Val(m[s]) + (Val(i.closed_at) - i.created_at))
    ELSE IF lt[s] = "unstatused"
         THEN m[s]
         ELSE Some(Val(m[s]) - (now - i.created_at))

\* lines 101-115 for one status: the new accumulator of that status
\* variant: the closed branch adds nothing after a LEFT
FinalizeStatus_ClosedLeftCheck(m, s, i, lt, now) ==
    IF lt[s] = "unstatused"
    THEN m[s]
    ELSE IF i.state = "closed"
         THEN Some(Val(m[s]) + (Val(i.closed_at) - i.created_at))
         ELSE Some(Val(m[s]) + (now - i.created_at))

FinalizeStatus(m, s, i, lt, now) ==
    IF i.state = "closed"
    THEN Some(Val(m[s]) + (Val(i.closed_at) - i.created_at))
    ELSE IF lt[s] = "unstatused"
         THEN m[s]
         ELSE Some(Val(m[s]) + (now - i.created_at))

\* lines 103-113: whether the iteration for status s reaches datetime.now()
ReadsClock(i, s, lt) == i.state # "closed" /\ lt[s] # "unstatused"

\* line 104: datetime.fromisoformat(None) raises TypeError
FinalizeRaises(i) == i.state = "closed" /\ i.closed_at = None

\* lines 100-116: the map returned after the loop left the dictionaries `a`,
\* every datetime.now() reading the same instant `now`
ReturnedFor(a, i, now, s) ==
    IF s \in a.statused
    THEN FinalizeStatus(a.status_metrics, s, i, a.status_last_event_type, now)
    ELSE a.status_metrics[s]

Returned(a, i, now) == [s \in StatusSet |-> ReturnedFor(a, i, now, s)]

\* ---- get_stats_time_in_statuses

\* the durations of the issues' maps, in whole seconds
SampleValues == {SampleUnit * v : v \in 0..MaxSeconds}

\* IssueWithMetrics.status_metrics: None, an empty dict, or a dict over the
\* configured statuses as get_status_metrics returns it
ItemMaps ==
    {None, Some(<< >>)} \cup
    {Some(m) : m \in [StatusSet -> {None} \cup {Some(v) : v \in SampleValues}]}

\* line 126: `if issue.status_metrics:` (None and {} are falsy)
Truthy(m) == m # None /\ DOMAIN Val(m) # {}

\* variant: a truthiness test, which drops timedelta(0)
IsSample_Truthy(v) == v # None /\ Val(v) # 0

\* line 128: `is None` decides whether a value is a sample
IsSample(v) == v # None

\* lines 126-135 for one issue
Collect(t, m) ==
    IF ~Truthy(m) THEN t
    ELSE LET d == Val(m)
             hit == {s \in DOMAIN d : IsSample(d[s])}
         IN  [s \in (DOMAIN t) \cup hit |->
                 IF s \in hit
                 THEN Append(IF s \in DOMAIN t THEN t[s] ELSE << >>, Val(d[s]))
                 ELSE t[s]]

RECURSIVE SumSeq(_)
SumSeq(q) == IF q = << >> THEN 0 ELSE Head(q) + SumSeq(Tail(q))

RECURSIVE Insert(_, _)
Insert(q, v) ==
    IF q = << >> THEN <<v>>
    ELSE IF v <= Head(q) THEN <<v>> \o q
    ELSE <<Head(q)>> \o Insert(Tail(q), v)

RECURSIVE Sorted(_)
Sorted(q) == IF q = << >> THEN << >> ELSE Insert(Sorted(Tail(q)), Head(q))

\* numpy.round of the rational num/den: to the nearest integer, ties to even
RoundHalfEven(num, den) ==
    LET q == num \div den
        r == num % den
    IN  IF 2 * r < den THEN q
        ELSE IF 2 * r > den THEN q + 1
        ELSE IF q % 2 = 0 THEN q ELSE q + 1

\* line 142: numpy.round(numpy.average(time_list))
Average(q) == RoundHalfEven(SumSeq(q), Len(q))

\* line 145: numpy.round(numpy.median(time_list))
Median(q) ==
    LET a == Sorted(q)
        n == Len(q)
    IN  IF n % 2 = 1 THEN a[(n + 1) \div 2]
        ELSE RoundHalfEven(a[n \div 2] + a[n \div 2 + 1], 2)

\* variant: the nearest-rank percentile, without interpolation
Percentile90_NearestRank(q) ==
    LET a == Sorted(q)
        n == Len(q)
    IN  a[(9 * n + 9) \div 10]

\* line 148: numpy.round(numpy.percentile(time_list, 90)), linear interpolation
\* at the virtual index 0.9 * (n - 1)
Percentile90(q) ==
    LET a == Sorted(q)
        n == Len(q)
        lo == (9 * (n - 1)) \div 10
        r == (9 * (n - 1)) % 10
    IN  IF r = 0 THEN a[lo + 1]
        ELSE RoundHalfEven(10 * a[lo + 1] + r * (a[lo + 2] - a[lo + 1]), 10)

\* variant: no None entries are added
Missing_Nothing(average) == {}

\* lines 151-155: the statuses that get a None entry in all three mappings
Missing(average) == {s \in StatusSet : s \notin DOMAIN average}

\* lines 137-161
GetStats(t) ==
    LET average == [s \in DOMAIN t |-> Some(Average(t[s]))]
        med == [s \in DOMAIN t |-> Some(Median(t[s]))]
        ninety == [s \in DOMAIN t |-> Some(Percentile90(t[s]))]
        Fill(d) == [s \in (DOMAIN d) \cup Missing(average) |->
                       IF s \in DOMAIN d THEN d[s] ELSE None]
    IN  [avg |-> Fill(average), med |-> Fill(med), p90 |-> Fill(ninety)]

\* ---- get_status_events (lines 15-44)

\* what the page fetched on line 25 holds: no embedded-data script tag; a tag
\* whose JSON is empty; a tag whose text is not JSON; JSON without the
\* timeline path of line 37; JSON with the timeline
Documents == {"no_tag", "empty_json", "invalid_json", "no_timeline", "timeline"}

\* status names a timeline node may carry; "X" is not a configured status
StatusNames == StatusSet \cup {"X"}

\* the nodes of frontTimelineItems.edges: a status change carries "status"
\* and "previousStatus" ("" when there was none); other nodes carry no "status"
Nodes ==
    {[createdAt |-> t, status |-> st, previousStatus |-> pr] :
        t \in 0..1,
        st \in {Some(x) : x \in StatusNames},
        pr \in {""} \cup StatusNames}
    \cup {[createdAt |-> t, status |-> None, previousStatus |-> ""] : t \in 0..1}

\* variant: the previous status is not tested against the configured statuses
NodeEvents_AnyPrevious(node) ==
    IF node.status = None THEN << >>
    ELSE (IF Val(node.status) \in StatusSet
          THEN <<[createdAt |-> node.createdAt, event |-> "statused",
                  statusName |-> Val(node.status)]>>
          ELSE << >>)
         \o (IF node.previousStatus # ""
             THEN <<[createdAt |-> node.createdAt, event |-> "unstatused",
                     statusName |-> node.previousStatus]>>
             ELSE << >>)

\* lines 38-43: the events one node appends
NodeEvents(node) ==
    IF node.status = None THEN << >>
    ELSE (IF Val(node.status) \in StatusSet
          THEN <<[createdAt |-> node.createdAt, event |-> "statused",
                  statusName |-> Val(node.status)]>>
          ELSE << >>)
         \o (IF node.previousStatus # "" /\ node.previousStatus \in StatusSet
             THEN <<[createdAt |-> node.createdAt, event |-> "unstatused",
                     statusName |-> node.previousStatus]>>
             ELSE << >>)

\* line 35: json.loads raises on text that is not JSON
LoadsRaises(d) == d = "invalid_json"

\* line 36: `if json_data` is false for the initial {} and for empty JSON
JsonDataFalsy(d) == d \in {"no_tag", "empty_json"}

\* line 37: the subscript chain raises when the path is not in the JSON
PathRaises(d) == d = "no_timeline"

\* ---- the state machine

\* the state on entry of get_status_metrics (lines 58-69)
MetricsEntry ==
    /\ clock = FirstNow
    /\ n_events = 0
    /\ status_metrics = EmptyAcc.status_metrics
    /\ statused = {}
    /\ unstatused = {}
    /\ status_last_event_type = << >>
    /\ k = 1
    /\ n_skipped = 0
    /\ intervals = [s \in StatusSet |-> NoIntervals]
    /\ in_range = StatusSet
    /\ loop_metrics = None
    /\ now_read = [s \in StatusSet |-> None]
    /\ filtered = [acc |-> EmptyAcc, n |-> 0]
    /\ ascending = [s \in StatusSet |-> None]
    /\ solo = [s \in StatusSet |-> EmptyAcc]
    /\ tally = [s \in StatusSet |-> NoTally]

\* the state on entry of get_stats_time_in_statuses (line 124)
StatsEntry ==
    /\ n_issues = 0
    /\ time_in_statuses = << >>
    /\ stats = None
    /\ sampled = {}

\* the state on entry of get_status_events (line 24)
EventsEntry ==
    /\ status_events = << >>
    /\ edges = << >>
    /\ emitted = << >>

NoIssue == [created_at |-> 0, closed_at |-> None, state |-> "open"]

Entry == MetricsEntry /\ StatsEntry /\ EventsEntry

\* one call of get_status_metrics, on an issue as the tracker reports it
InitMetrics ==
    /\ Entry
    /\ pc = "loop"
    /\ issue \in {i \in Issues : WellFormed(i) /\ Consistent(i)}
    /\ document = "timeline"

\* one call of get_status_metrics on any issue object, state and closed_at
\* set independently of each other
InitAny ==
    /\ Entry
    /\ pc = "loop"
    /\ issue \in {i \in Issues : WellFormed(i)}
    /\ document = "timeline"

\* one call of get_stats_time_in_statuses
InitStats ==
    /\ Entry
    /\ pc = "collect"
    /\ issue = NoIssue
    /\ document = "timeline"

\* one call of get_status_events
InitEvents ==
    /\ Entry
    /\ pc = "parse"
    /\ issue = NoIssue
    /\ document \in Documents

\* a run is one call of one of the three functions
Init == InitMetrics \/ InitStats \/ InitEvents

Current == Acc(status_metrics, statused, unstatused, status_last_event_type)

\* lines 70-71: the list of events is empty
ReturnEmpty ==
    /\ pc = "loop"
    /\ n_events = 0
    /\ pc' = "done"
    /\ UNCHANGED <<metricsVars, statsVars, eventsVars>>

\* lines 74-98: one iteration of the event loop
ProcessEvent(e) ==
    /\ pc = "loop"
    /\ n_events < MaxEvents
    /\ n_events' = n_events + 1
    /\ LET a == LoopBody(Current, e, issue)
       IN  /\ status_metrics' = a.status_metrics
           /\ statused' = a.statused
           /\ unstatused' = a.unstatused
           /\ status_last_event_type' = a.status_last_event_type
    /\ n_skipped' = IF SkipEvent(issue, e) THEN n_skipped + 1 ELSE n_skipped
    /\ intervals' = IF SkipEvent(issue, e) THEN intervals
                    ELSE [intervals EXCEPT ![e.statusName] = Pair(@, e)]
    /\ ascending' = IF SkipEvent(issue, e) THEN ascending
                    ELSE [ascending EXCEPT ![e.statusName] = Ascend(@, e, issue)]
    /\ solo' = [solo EXCEPT ![e.statusName] = LoopBody(@, e, issue)]
    /\ tally' = IF SkipEvent(issue, e) THEN tally
                ELSE [tally EXCEPT ![e.statusName] = Count(@, e)]
    /\ in_range' = IF InLifetime(issue, e) THEN in_range
                   ELSE in_range \ {e.statusName}
    /\ filtered' = IF e.createdAt > OrZero(issue.closed_at) + GraceSeconds
                      /\ issue.closed_at # None
                   THEN filtered
                   ELSE [acc |-> LoopBody(filtered.acc, e, issue),
                         n |-> filtered.n + 1]
    /\ UNCHANGED <<issue, clock, pc, k, loop_metrics, now_read, statsVars, eventsVars>>

\* line 100: the event loop is exhausted
EndLoop ==
    /\ pc = "loop"
    /\ n_events >= 1
    /\ pc' = "finalize"
    /\ k' = 1
    /\ loop_metrics' = Some(status_metrics)
    /\ UNCHANGED <<issue, clock, n_events, status_metrics, statused, unstatused,
                   status_last_event_type, n_skipped,
                   intervals, in_range, now_read, filtered, ascending,
                   solo, tally, statsVars, eventsVars>>

\* line 116: the position after iteration k of the finalization loop
AfterStatus == IF k = Len(statuses) THEN "done" ELSE "finalize"

\* lines 100-116: one iteration of the finalization loop; the one that reads
\* datetime.now() reads an instant `now` not before the previous read
Finalize(now) ==
    /\ pc = "finalize"
    /\ LET s == statuses[k]
       IN  IF s \notin statused
           THEN /\ now = clock
                /\ k' = k + 1
                /\ pc' = AfterStatus
                /\ UNCHANGED <<clock, status_metrics, now_read>>
           ELSE IF FinalizeRaises(issue)
           THEN /\ now = clock
                /\ pc' = "raised"
                /\ UNCHANGED <<clock, k, status_metrics, now_read>>
           ELSE /\ k' = k + 1
                /\ pc' = AfterStatus
                /\ status_metrics' =
                       [status_metrics EXCEPT
                           ![s] = FinalizeStatus(status_metrics, s, issue,
                                                 status_last_event_type, now)]
                /\ IF ReadsClock(issue, s, status_last_event_type)
                   THEN /\ clock' = now
                        /\ now_read' = [now_read EXCEPT ![s] = Some(now)]
                   ELSE /\ now = clock
                        /\ UNCHANGED <<clock, now_read>>
    /\ UNCHANGED <<issue, n_events, statused, unstatused,
                   status_last_event_type, n_skipped,
                   intervals, in_range, loop_metrics, filtered, ascending,
                   solo, tally, statsVars, eventsVars>>

\* lines 125-135: one iteration of the loop over issues_with_metrics
CollectIssue(m) ==
    /\ pc = "collect"
    /\ n_issues < MaxIssues
    /\ n_issues' = n_issues + 1
    /\ time_in_statuses' = Collect(time_in_statuses, m)
    /\ sampled' = sampled \cup
           (IF m = None THEN {} ELSE {s \in DOMAIN Val(m) : Val(m)[s] # None})
    /\ UNCHANGED <<pc, stats, metricsVars, eventsVars>>

\* lines 137-162: the statistics and the return
ReturnStats ==
    /\ pc = "collect"
    /\ pc' = "stats"
    /\ stats' = Some(GetStats(time_in_statuses))
    /\ UNCHANGED <<n_issues, time_in_statuses, sampled, metricsVars, eventsVars>>

\* lines 25-37: the page is fetched and parsed, up to the loop over the edges
ParseDocument ==
    /\ pc = "parse"
    /\ pc' = IF document = "no_tag" THEN "returned"
             ELSE IF LoadsRaises(document) THEN "raised_events"
             ELSE IF JsonDataFalsy(document) THEN "returned"
             ELSE IF PathRaises(document) THEN "raised_events"
             ELSE "edges"
    /\ UNCHANGED <<metricsVars, statsVars, eventsVars>>

\* lines 37-43: one iteration of the loop over the edges
ReadEdge(node) ==
    /\ pc = "edges"
    /\ Len(edges) < MaxNodes
    /\ edges' = Append(edges, node)
    /\ status_events' = status_events \o NodeEvents(node)
    /\ emitted' = Append(emitted, NodeEvents(node))
    /\ UNCHANGED <<pc, document, metricsVars, statsVars>>

\* line 44: the loop over the edges is exhausted
ReturnEvents ==
    /\ pc = "edges"
    /\ pc' = "returned"
    /\ UNCHANGED <<metricsVars, statsVars, eventsVars>>

NextMetrics ==
    \/ ReturnEmpty
    \/ \E e \in StatusEvents(issue) : ProcessEvent(e)
    \/ EndLoop
    \/ \E now \in {n \in Nows : n >= clock} : Finalize(now)

NextStats ==
    \/ \E m \in ItemMaps : CollectIssue(m)
    \/ ReturnStats

NextEvents ==
    \/ ParseDocument
    \/ \E node \in Nodes : ReadEdge(node)
    \/ ReturnEvents

Next == NextMetrics \/ NextStats \/ NextEvents

\* the three functions, each called on any of its inputs
Spec == Init /\ [][Next]_vars

\* get_status_metrics alone
SpecMetrics == InitMetrics /\ [][NextMetrics]_vars

SpecAny == InitAny /\ [][NextMetrics]_vars

\* get_stats_time_in_statuses alone
SpecStats == InitStats /\ [][NextStats]_vars

\* get_status_events alone
SpecEvents == InitEvents /\ [][NextEvents]_vars

\* ======================================================================
\* Properties
\* ======================================================================

ClosedIssue == issue.state = "closed"
OpenIssue == issue.state # "closed"

\* the dictionaries as the event loop left them
LoopAcc == Acc(Val(loop_metrics), statused, unstatused, status_last_event_type)

\* C1: for a closed issue and a status whose events alternate ENTERED, LEFT,
\* ..., end with LEFT and all lie between created_at and closed_at, the
\* returned duration is exactly the sum of the matched intervals
C1_ClosedMatchedIntervals ==
    pc = "done" =>
        \A s \in StatusSet :
            (ClosedIssue /\ s \in in_range /\ intervals[s].phase = "out")
                => status_metrics[s] = Some(intervals[s].matched)

\* C2: for a closed issue and a status whose events alternate, end with an
\* unmatched ENTERED at e and all lie between created_at and closed_at, the
\* returned duration is the matched intervals plus (closed_at - e)
C2_ClosedTrailingEntered ==
    pc = "done" =>
        \A s \in StatusSet :
            (ClosedIssue /\ s \in in_range /\ intervals[s].phase = "in")
                => status_metrics[s] =
                       Some(intervals[s].matched
                            + (Val(issue.closed_at) - intervals[s].start))

C2_Witness ==
    /\ pc = "done"
    /\ ClosedIssue
    /\ \E s \in StatusSet :
          /\ s \in in_range
          /\ intervals[s].phase = "in"
          /\ intervals[s].matched > 0
          /\ Val(issue.closed_at) > intervals[s].start

\* C3: for an open issue and a status whose processed events alternate and
\* end with an unmatched ENTERED at e, the returned duration is the matched
\* intervals plus (now - e), now being the instant the finalization read
C3_OpenTrailingEntered ==
    pc = "done" =>
        \A s \in StatusSet :
            (OpenIssue /\ intervals[s].phase = "in")
                => /\ now_read[s] # None
                   /\ status_metrics[s] =
                          Some(intervals[s].matched
                               + (Val(now_read[s]) - intervals[s].start))

C3_Witness ==
    /\ pc = "done"
    /\ OpenIssue
    /\ issue.created_at > 0
    /\ \E s \in StatusSet :
          /\ intervals[s].phase = "in"
          /\ intervals[s].matched > 0

FilteredResult ==
    IF filtered.n = 0 THEN EmptyAcc.status_metrics
    ELSE Returned(filtered.acc, issue, clock)

\* C5: for a closed issue exactly the events later than closed_at + 5 minutes
\* take the `continue`; the loop's dictionaries and the returned map are those
\* of the same issue with these events removed
C5_LateEventsIgnored ==
    ClosedIssue =>
        /\ n_skipped + filtered.n = n_events
        /\ pc = "loop" => Current = filtered.acc
        /\ pc = "done" => status_metrics = FilteredResult

C5_Witness ==
    /\ pc = "done"
    /\ ClosedIssue
    /\ n_skipped >= 1
    /\ \E s \in StatusSet : status_metrics[s] = None
    /\ \E s \in StatusSet :
          /\ status_metrics[s] # None
          /\ Val(status_metrics[s]) <= 0 - GraceSeconds

\* C6: a configured status for which no ENTERED event was processed is absent
\* in the returned map
C6_NeverEnteredAbsent ==
    pc = "done" =>
        \A s \in StatusSet : s \notin statused => status_metrics[s] = None

\* C7: every configured status is a key of the map get_status_metrics returns
\* and of the avg, med and 90p mappings get_stats_time_in_statuses returns
C7_AllStatusesAreKeys ==
    /\ pc = "done" => StatusSet \subseteq DOMAIN status_metrics
    /\ pc = "stats" =>
          /\ StatusSet \subseteq DOMAIN Val(stats).avg
          /\ StatusSet \subseteq DOMAIN Val(stats).med
          /\ StatusSet \subseteq DOMAIN Val(stats).p90

C7_Witness ==
    /\ pc = "stats"
    /\ n_issues >= 1
    /\ sampled # {}
    /\ sampled # StatusSet

\* the value of status s in the map returned at the instant now
ResultAt(now, s) == ReturnedFor(LoopAcc, issue, now, s)

\* C8: the map returned for a closed issue is the same at any two instants;
\* for an open issue the duration of a status whose last processed event is
\* ENTERED does not decrease from an instant to a later one, and the value of
\* every other status is the same at both
C8_RerunLater ==
    (pc = "done" /\ loop_metrics # None) =>
        \A s \in StatusSet :
            /\ status_metrics[s] =
                   ResultAt(IF now_read[s] = None THEN clock
                            ELSE Val(now_read[s]), s)
            /\ \A n1 \in Nows : \A n2 \in {n \in Nows : n >= n1} :
                   IF OpenIssue /\ s \in statused
                      /\ status_last_event_type[s] = "statused"
                   THEN /\ ResultAt(n1, s) # None
                        /\ ResultAt(n2, s) # None
                        /\ Val(ResultAt(n2, s)) >= Val(ResultAt(n1, s))
                   ELSE ResultAt(n2, s) = ResultAt(n1, s)

C8_Witness ==
    /\ pc = "done"
    /\ OpenIssue
    /\ \E s \in StatusSet :
          /\ s \in statused
          /\ status_last_event_type[s] = "statused"
          /\ Val(ResultAt(FirstNow + MaxTicks, s)) > Val(ResultAt(FirstNow, s))
    /\ \E s \in StatusSet :
          /\ s \in statused
          /\ status_last_event_type[s] = "unstatused"

\* C9: with an empty list of events every configured status is absent in the
\* returned map and no finalization took place
C9_NoEventsAllAbsent ==
    (pc = "done" /\ n_events = 0) =>
        /\ \A s \in StatusSet : status_metrics[s] = None
        /\ loop_metrics = None
        /\ k = 1
        /\ \A s \in StatusSet : now_read[s] = None

C9_Witness ==
    /\ pc = "done"
    /\ n_events = 0
    /\ ClosedIssue
    /\ issue.closed_at # None

\* C10: for every configured status avg, med and 90p are all absent exactly
\* when no issue's map holds a non-absent value for it, and otherwise none of
\* them is absent; a zero duration is a value
C10_AbsentIffNoSample ==
    pc = "stats" =>
        \A s \in StatusSet :
            LET r == Val(stats)
            IN  IF s \in sampled
                THEN r.avg[s] # None /\ r.med[s] # None /\ r.p90[s] # None
                ELSE r.avg[s] = None /\ r.med[s] = None /\ r.p90[s] = None

C10_Witness ==
    /\ pc = "stats"
    /\ n_issues = MaxIssues
    /\ \E s \in StatusSet :
          /\ s \in sampled
          /\ SumSeq(time_in_statuses[s]) = 0
          /\ Val(stats).avg[s] = Some(0)
    /\ \E s \in StatusSet : s \notin sampled

\* the j-th smallest element of the samples q, by counting
OrderStat(q, j) ==
    CHOOSE v \in {q[i] : i \in DOMAIN q} :
        /\ Cardinality({i \in DOMAIN q : q[i] < v}) < j
        /\ j <= Cardinality({i \in DOMAIN q : q[i] <= v})

\* r is an integer nearest to the rational num/den
IsNearest(r, num, den) ==
    LET d == r * den - num
    IN  2 * (IF d < 0 THEN 0 - d ELSE d) <= den

\* avg, med and 90p of every sampled status are the rounded mean, the rounded
\* median and the rounded linear interpolation at rank 0.9 * (n - 1)
RoundedStatistics ==
    \A s \in DOMAIN time_in_statuses :
        LET q == time_in_statuses[s]
            n == Len(q)
            r == Val(stats)
            lo == (9 * (n - 1)) \div 10 + 1
            hi == IF lo < n THEN lo + 1 ELSE n
            f == (9 * (n - 1)) % 10
        IN  /\ n >= 1
            /\ r.avg[s] # None /\ r.med[s] # None /\ r.p90[s] # None
            /\ IsNearest(Val(r.avg[s]), SumSeq(q), n)
            /\ IsNearest(Val(r.med[s]),
                         OrderStat(q, (n + 1) \div 2) + OrderStat(q, n \div 2 + 1),
                         2)
            /\ IsNearest(Val(r.p90[s]),
                         10 * OrderStat(q, lo)
                             + f * (OrderStat(q, hi) - OrderStat(q, lo)),
                         10)

\* the samples of status s are 10, 20 and 30 seconds, in any order
TenTwentyThirty(s) ==
    /\ s \in DOMAIN time_in_statuses
    /\ Len(time_in_statuses[s]) = 3
    /\ {time_in_statuses[s][i] : i \in 1..3} = {10, 20, 30}

\* C11 (as stated): the statistics are the rounded mean, median and linearly
\* interpolated 90th percentile, and the samples [10, 20, 30] give avg 20s,
\* med 20s and 90p 26s
C11_AsStated ==
    pc = "stats" =>
        /\ RoundedStatistics
        /\ \A s \in StatusSet :
              TenTwentyThirty(s) =>
                  /\ Val(stats).avg[s] = Some(20)
                  /\ Val(stats).med[s] = Some(20)
                  /\ Val(stats).p90[s] = Some(26)

\* C11 (amended): the statistics are the rounded mean, median and linearly
\* interpolated 90th percentile, and the samples [10, 20, 30] give avg 20s,
\* med 20s and 90p 28s
C11_RoundedStatistics ==
    pc = "stats" =>
        /\ RoundedStatistics
        /\ \A s \in StatusSet :
              TenTwentyThirty(s) =>
                  /\ Val(stats).avg[s] = Some(20)
                  /\ Val(stats).med[s] = Some(20)
                  /\ Val(stats).p90[s] = Some(28)

C11_Witness ==
    /\ pc = "stats"
    /\ \E s \in StatusSet :
          /\ TenTwentyThirty(s)
          /\ time_in_statuses[s] = <<30, 10, 20>>
          /\ Val(stats).p90[s] = Some(28)

\* the concatenation of a sequence of sequences
RECURSIVE Flatten(_)
Flatten(ss) == IF ss = << >> THEN << >> ELSE Head(ss) \o Flatten(Tail(ss))

\* the node carries a new status of the configured set
NewInSet(node) == node.status # None /\ Val(node.status) \in StatusSet

\* the node carries a new status and a non-empty previous status of the set
PreviousInSet(node) ==
    /\ node.status # None
    /\ node.previousStatus # ""
    /\ node.previousStatus \in StatusSet

\* C12: the events come in record order; a record with a new status yields
\* ENTERED for it iff it is in the set, then LEFT for the previous status at the
\* same timestamp iff that is non-empty and in the set; other records yield
\* nothing, and no event names a status outside the set
C12_EmittedPerRecord ==
    /\ Len(emitted) = Len(edges)
    /\ status_events = Flatten(emitted)
    /\ \A j \in DOMAIN status_events : status_events[j].statusName \in StatusSet
    /\ \A i \in DOMAIN edges :
          LET node == edges[i]
              out == emitted[i]
              ent == {j \in DOMAIN out : out[j].event = "statused"}
              lef == {j \in DOMAIN out : out[j].event = "unstatused"}
          IN  /\ DOMAIN out = ent \cup lef
              /\ ent = (IF NewInSet(node) THEN {1} ELSE {})
              /\ lef = (IF PreviousInSet(node) THEN {Len(out)} ELSE {})
              /\ \A j \in ent : /\ out[j].statusName = Val(node.status)
                                /\ out[j].createdAt = node.createdAt
              /\ \A j \in lef : /\ out[j].statusName = node.previousStatus
                                /\ out[j].createdAt = node.createdAt

C12_Witness ==
    /\ pc = "returned"
    /\ Len(edges) = 2
    /\ edges[1].status = Some("X") /\ edges[1].previousStatus = "A"
    /\ edges[2].status = Some("B") /\ edges[2].previousStatus = "X"
    /\ Len(status_events) = 2
    /\ status_events[1].event = "unstatused"
    /\ status_events[2].event = "statused"

\* the node names one configured status as both its new and previous status
SelfTransition(node) ==
    /\ NewInSet(node)
    /\ node.previousStatus = Val(node.status)

\* C14: a record naming the same status as new and previous yields only the
\* ENTERED event and no LEFT event
C14_SelfTransitionOnlyEntered ==
    \A i \in DOMAIN edges :
        SelfTransition(edges[i]) =>
            /\ Len(emitted[i]) = 1
            /\ emitted[i][1].event = "statused"

\* C15: a document without parsable history (no tag, invalid structured data,
\* no timeline path) makes get_status_events return the empty sequence
C15_UnparsableGivesEmpty ==
    (pc # "parse" /\ document \in {"no_tag", "invalid_json", "no_timeline"}) =>
        /\ pc = "returned"
        /\ status_events = << >>

\* C13: "now" is read once per run: the statuses of one run that take time up
\* to now all use the same instant, so two of them with equal accumulators
\* after the event loop end with equal durations
C13_NowReadOnce ==
    pc = "done" =>
        \A s \in StatusSet : \A t \in StatusSet :
            (now_read[s] # None /\ now_read[t] # None) =>
                /\ now_read[s] = now_read[t]
                /\ Val(loop_metrics)[s] = Val(loop_metrics)[t]
                       => status_metrics[s] = status_metrics[t]

\* C16: get_status_metrics raises no error, whatever the issue and the events
C16_NeverRaises == pc # "raised"

\* C17: the skip of late events applies only to closed issues: for an open
\* issue no event is skipped, even when closed_at is set
C17_OpenNeverSkips == OpenIssue => n_skipped = 0

\* every status's processed events alternate ENTERED, LEFT, ... in ascending
\* time from created_at on, and the loop skipped no event
AlternatingAscending ==
    /\ n_skipped = 0
    /\ \A s \in StatusSet :
          /\ intervals[s].phase # "broken"
          /\ ascending[s] # Unordered

\* C18: for an issue whose events per status alternate in ascending time, lie
\* at or after created_at and are all accepted by the skip policy, every
\* non-absent duration is non-negative and, for a closed issue, at most
\* closed_at - created_at
C18_DurationsWithinLifetime ==
    (pc = "done" /\ AlternatingAscending) =>
        \A s \in StatusSet :
            status_metrics[s] # None =>
                /\ Val(status_metrics[s]) >= 0
                /\ ClosedIssue =>
                       Val(status_metrics[s])
                           <= Val(issue.closed_at) - issue.created_at

\* the instant the finalization of status s read, the clock if it read none
NowOf(s) == IF now_read[s] = None THEN clock ELSE Val(now_read[s])

\* the last-event kind a run recorded for status s, None when it recorded none
LastKind(lt, s) == IF s \in DOMAIN lt THEN Some(lt[s]) ELSE None

\* C19: the statuses are accounted independently: the duration and the
\* last-event kind of a status are those of the run on that status's events
\* alone, whatever events of other statuses were processed in between
C19_StatusesIndependent ==
    \A s \in StatusSet :
        /\ LastKind(status_last_event_type, s)
               = LastKind(solo[s].status_last_event_type, s)
        /\ pc = "loop" => status_metrics[s] = solo[s].status_metrics[s]
        /\ pc = "done" => status_metrics[s] = ReturnedFor(solo[s], issue, NowOf(s), s)

C19_Witness ==
    /\ pc = "done"
    /\ OpenIssue
    /\ n_events = 3
    /\ tally["A"].n_in = 2
    /\ tally["B"].n_out = 1
    /\ status_last_event_type["B"] = "unstatused"
    /\ status_metrics["A"] # status_metrics["B"]

\* the duration of status s computed from the multiset of its processed events
\* and the time credited by the finalization
FromTally(s, trailing) ==
    LET y == tally[s]
        c == issue.created_at
        net == (y.t_out - y.n_out * c) - (y.t_in - y.n_in * c)
    IN  IF y.n_in + y.n_out = 0 THEN None
        ELSE IF y.n_in = 0 THEN Some(net)
        ELSE Some(net + trailing)

\* C20: for a closed issue the returned map is a function of the multiset of
\* events, whatever their order; for an open issue the order matters only
\* through the kind of the last processed event of the status
C20_OrderIndependent ==
    pc = "done" =>
        \A s \in StatusSet :
            IF ClosedIssue
            THEN status_metrics[s]
                     = FromTally(s, Val(issue.closed_at) - issue.created_at)
            ELSE status_metrics[s]
                     = FromTally(s, IF LastKind(status_last_event_type, s)
                                           = Some("unstatused")
                                    THEN 0
                                    ELSE NowOf(s) - issue.created_at)

C20_Witness ==
    /\ pc = "done"
    /\ ClosedIssue
    /\ \E s \in StatusSet :
          /\ ascending[s] = Unordered
          /\ tally[s].n_in = 1
          /\ tally[s].n_out = 2
          /\ status_last_event_type[s] = "statused"
====
